---- MODULE Spec2Model ----
(***************************************************************************)
(* The intrusive multi-producer single-consumer queue of                   *)
(* src/sync/mpsc_list.rs.                                                  *)
(*                                                                         *)
(* Every atomic access of the code (head.swap, next.store, next.load,      *)
(* head.load) and every access of the consumer to its tail cell and to a   *)
(* node is one step of the thread that performs it; steps of different     *)
(* threads interleave freely.  Heap nodes are numbered in allocation       *)
(* order, the stub of Queue::new being node 0.  A node keeps its number    *)
(* after it is freed, so that an access to a freed node is visible.  A     *)
(* pointer is the number of the node it was obtained for; the address of   *)
(* a node is kept apart, because the allocator may hand the address of a   *)
(* freed node to a later node: pointers compare by address, and an access  *)
(* through a pointer reaches whatever node lives at its address.           *)
(* The AcqRel swap, the Release store and the Acquire loads act on single  *)
(* locations whose modification order every thread observes coherently;    *)
(* each is modelled as an atomic step on the one shared copy.              *)
(***************************************************************************)
EXTENDS Integers, Sequences, FiniteSets, Bags, TLC

\* ------------------------------------------------------------------ bounds
\* Total number of push calls over the life of the queue.
MaxPushes == 3

\* Number of push calls, and of values popped before the last calls of pop,
\* when two threads pop.
MaxRacedPushes == 1

\* ------------------------------------------------------------- universe
\* The producer threads.
Producers == {1, 2}

\* The threads that call pop / is_empty / drop.  The queue's contract allows
\* one; OneConsumer is the set the contract-respecting specification uses.
Consumers == {"c1", "c2"}
OneConsumer == {"c1"}

\* The producer of the specification with two consumers.
OneProducer == {1}

\* The values T handed to push: producer p hands over <<p, k>> in its k-th
\* call, so that every value names the call that pushed it.
Values == Producers \X (1..MaxPushes)

\* ptr::null_mut()
NULL == -1

\* Option::None
None == <<>>

\* A pointer that is neither null nor the address of any node: what a load
\* of a freed node's link can yield once the allocator has written its own
\* data into the block.
WILD == -2

\* A T that no push was given: what a read of a freed node's payload can
\* yield as Some(_).
Garbage == <<0, 0>>

Nodes == 0..MaxPushes

VARIABLES
    head,       \* Queue.head : AtomicPtr<Node<T>>
    tail,       \* Queue.tail : UnsafeCell<*mut Node<T>>
    next,       \* Node.next of every node
    value,      \* Node.value of every node
    alloc,      \* heap state of every node: "unalloc", "live", "freed"
    addr,       \* the address Box::new gave each node (NULL: not allocated)
    dfree,      \* addresses the allocator holds as free once more than it
                \* gave them out: blocks freed twice without it noticing
    ppc,        \* position of each producer inside push
    pnode,      \* push's local `node`
    pprev,      \* push's local `prev`
    pcount,     \* number of push calls each producer has made
    psteps,     \* number of steps the producer's current push has taken
    cop,        \* the operation a consumer thread is executing
    cpc,        \* position of each consumer inside raw_pop / pop / is_empty
    ctail,      \* raw_pop's / is_empty's local `tail`
    cnext,      \* raw_pop's local `next`
    cret,       \* raw_pop's local `ret`
    inLoop,     \* pop is inside the `Inconsistent => loop` arm
    lastRes,    \* what the consumer's last finished call returned
    callSnap,   \* values whose push had returned when the current call began
    queue,      \* lifetime of the Queue: "alive", "dropping", "dropped"
    dropM,      \* number of unpopped values when drop began
    dropPops,   \* number of Some(_) observed by drop's loop
    faults,     \* memory-safety faults that have happened
    pushed,     \* values handed to push so far
    origin,     \* the value each node was allocated with (None: the stub)
    swapLog,    \* values in the order push executed head.swap
    storeLog,   \* values in the order push executed prev.next.store
    popLog      \* values in the order pop returned them

mem   == <<head, tail, next, value, alloc, addr, dfree>>
prod  == <<ppc, pnode, pprev, pcount, psteps>>
cons  == <<cop, cpc, ctail, cnext, cret, inLoop, lastRes, callSnap>>
life  == <<queue, dropM, dropPops>>
logs  == <<pushed, origin, swapLog, storeLog, popLog>>
vars  == <<head, tail, next, value, alloc, addr, dfree, ppc, pnode, pprev,
           pcount, psteps,
           cop, cpc, ctail, cnext, cret, inLoop, lastRes, callSnap,
           queue, dropM, dropPops, faults, pushed, origin, swapLog, storeLog,
           popLog>>

\* -------------------------------------------------------------- helpers
\* The set of elements of a sequence.
Range(s) == {s[i] : i \in 1..Len(s)}

\* The multiset of elements of a sequence.
BagOf(s) == [v \in Range(s) |-> Cardinality({i \in 1..Len(s) : s[i] = v})]

\* Number of nodes Node::new has handed out so far (the stub included).
NumAllocated == Cardinality({n \in Nodes : alloc[n] # "unalloc"})

\* Values whose push call has returned: swapped and linked.
Returned == Range(storeLog)

\* The pointers the program holds: head, tail, the locals of the threads
\* and the links of the live nodes.
HeldPtrs ==
    {head, tail}
      \cup {pnode[p] : p \in Producers} \cup {pprev[p] : p \in Producers}
      \cup {ctail[c] : c \in Consumers} \cup {cnext[c] : c \in Consumers}
      \cup {next[m] : m \in {k \in Nodes : alloc[k] = "live"}}

\* Pointer n is the address of a node that is allocated and not freed.
Live(n) == n \in Nodes /\ alloc[n] = "live"

\* The address pointer n holds: the block Box::new returned for node n, or
\* the pointer's own value when it is null or wild.
Addr(n) == IF n \in Nodes THEN addr[n] ELSE n

\* The addresses of freed blocks that the allocator may hand out again and
\* that the program can tell from a new address: those at which no node
\* lives now and which a held pointer refers to or the allocator holds
\* twice.  Any other block the allocator returns is an address no pointer
\* of the program holds.
FreeAddrs ==
    {addr[m] : m \in {k \in Nodes : /\ alloc[k] = "freed"
                                    /\ k \in HeldPtrs \/ addr[k] \in dfree}}
      \ {addr[m] : m \in {k \in Nodes : alloc[k] = "live"}}

\* The nodes Node::new can return for the next allocation: the next unused
\* node, or a node that is live at an address the allocator still holds as
\* free, because the block was freed twice before it was given out again.
NewNodes ==
    {n \in Nodes : alloc[n] = "unalloc" /\ n = NumAllocated}
      \cup {n \in Nodes : alloc[n] = "live" /\ addr[n] \in dfree}

\* Node::new: Box::new of a node with a null forward link.  For an unused
\* node the allocator returns an address no pointer holds (the node's own
\* number) or the address of a freed block.  For a node that lives at an
\* address the allocator holds as free, it returns that address once more:
\* the new node overwrites the live one.
NodeNew(n, v) ==
    /\ next'  = [next  EXCEPT ![n] = NULL]
    /\ value' = [value EXCEPT ![n] = v]
    /\ alloc' = [alloc EXCEPT ![n] = "live"]
    /\ \/ /\ alloc[n] = "unalloc"
          /\ \E a \in {n} \cup FreeAddrs : addr' = [addr EXCEPT ![n] = a]
          /\ dfree' = dfree
       \/ /\ alloc[n] = "live"
          /\ addr[n] \in dfree
          /\ addr' = addr
          /\ dfree' = dfree \ {addr[n]}

\* The node an access through pointer n reaches: n itself while it is live,
\* otherwise the node that now lives at n's address, if there is one.  A
\* null or wild pointer reaches no node.
Deref(n) ==
    IF n \notin Nodes \/ alloc[n] = "live" THEN n
    ELSE IF \E m \in Nodes : alloc[m] = "live" /\ addr[m] = addr[n]
         THEN CHOOSE m \in Nodes : alloc[m] = "live" /\ addr[m] = addr[n]
         ELSE n

\* What a read of dead memory can yield as a pointer: null, the address of
\* any node allocated so far, or a pointer to no node at all.
StalePtrs == {NULL, WILD} \cup {n \in Nodes : alloc[n] # "unalloc"}

\* What a load of (*n).next can yield: the stored pointer, or a stale
\* pointer when nothing lives at n's address.
LoadNext(n) == IF Live(Deref(n)) THEN {next[Deref(n)]} ELSE StalePtrs

\* What a read of (*n).value can yield: the stored option, or, when nothing
\* lives at n's address, None, any value a node has been given so far, or
\* Some of bytes that were never a T.
ReadValue(n) ==
    IF Live(Deref(n)) THEN {value[Deref(n)]}
                      ELSE pushed \cup {None, Garbage}

\* Field f of the nodes after a store of x through pointer n.  A store to
\* dead memory changes no node: what is read from dead memory is arbitrary
\* in any case.
StoreTo(f, n, x) ==
    IF Live(Deref(n)) THEN [f EXCEPT ![Deref(n)] = x] ELSE f

\* The fault recorded by an access through pointer n: n's node was freed,
\* or n points at no node.
Touch(n) ==
    IF Live(n) THEN {}
    ELSE IF n \in Nodes THEN {"use_after_free"} ELSE {"wild_access"}

\* The process has not been ended by the allocator's abort or by a signal.
Running == faults \cap {"aborted", "killed"} = {}

\* ----------------------------------------------------------------- Init
\* A Queue::new that allocates one stub for head and another for tail.
InitSeparateStubs ==
    /\ head = 1
    /\ tail = 0
    /\ next  = [n \in Nodes |-> NULL]
    /\ value = [n \in Nodes |-> None]
    /\ alloc = [n \in Nodes |-> IF n \in {0, 1} THEN "live" ELSE "unalloc"]
    /\ addr  = [n \in Nodes |-> IF n \in {0, 1} THEN n ELSE NULL]
    /\ dfree = {}
    /\ ppc    = [p \in Producers |-> "idle"]
    /\ pnode  = [p \in Producers |-> NULL]
    /\ pprev  = [p \in Producers |-> NULL]
    /\ pcount = [p \in Producers |-> 0]
    /\ psteps = [p \in Producers |-> 0]
    /\ cop    = [c \in Consumers |-> "none"]
    /\ cpc    = [c \in Consumers |-> "idle"]
    /\ ctail  = [c \in Consumers |-> NULL]
    /\ cnext  = [c \in Consumers |-> NULL]
    /\ cret   = [c \in Consumers |-> None]
    /\ inLoop = [c \in Consumers |-> FALSE]
    /\ lastRes = [c \in Consumers |-> [op |-> "none", val |-> None]]
    /\ callSnap = [c \in Consumers |-> {}]
    /\ queue = "alive"
    /\ dropM = 0
    /\ dropPops = 0
    /\ faults = {}
    /\ pushed = {}
    /\ origin = [n \in Nodes |-> None]
    /\ swapLog = <<>>
    /\ storeLog = <<>>
    /\ popLog = <<>>

\* Queue::new: one stub node, head and tail both pointing at it.
Init ==
    /\ head = 0
    /\ tail = 0
    /\ next  = [n \in Nodes |-> NULL]
    /\ value = [n \in Nodes |-> None]
    /\ alloc = [n \in Nodes |-> IF n = 0 THEN "live" ELSE "unalloc"]
    /\ addr  = [n \in Nodes |-> IF n = 0 THEN 0 ELSE NULL]
    /\ dfree = {}
    /\ ppc    = [p \in Producers |-> "idle"]
    /\ pnode  = [p \in Producers |-> NULL]
    /\ pprev  = [p \in Producers |-> NULL]
    /\ pcount = [p \in Producers |-> 0]
    /\ psteps = [p \in Producers |-> 0]
    /\ cop    = [c \in Consumers |-> "none"]
    /\ cpc    = [c \in Consumers |-> "idle"]
    /\ ctail  = [c \in Consumers |-> NULL]
    /\ cnext  = [c \in Consumers |-> NULL]
    /\ cret   = [c \in Consumers |-> None]
    /\ inLoop = [c \in Consumers |-> FALSE]
    /\ lastRes = [c \in Consumers |-> [op |-> "none", val |-> None]]
    /\ callSnap = [c \in Consumers |-> {}]
    /\ queue = "alive"
    /\ dropM = 0
    /\ dropPops = 0
    /\ faults = {}
    /\ pushed = {}
    /\ origin = [n \in Nodes |-> None]
    /\ swapLog = <<>>
    /\ storeLog = <<>>
    /\ popLog = <<>>

\* ----------------------------------------------------------------- push
\* push, line 59: let node = Node::new(Some(t)).
PushNew(p) ==
    /\ queue = "alive"
    /\ ppc[p] = "idle"
    /\ NumAllocated <= MaxPushes
    /\ \E n \in NewNodes :
         /\ NodeNew(n, <<p, pcount[p] + 1>>)
         /\ pnode'  = [pnode  EXCEPT ![p] = n]
         /\ origin' = [origin EXCEPT ![n] = <<p, pcount[p] + 1>>]
    /\ pcount' = [pcount EXCEPT ![p] = @ + 1]
    /\ psteps' = [psteps EXCEPT ![p] = 1]
    /\ ppc'    = [ppc    EXCEPT ![p] = "new"]
    /\ pushed' = pushed \cup {<<p, pcount[p] + 1>>}
    /\ UNCHANGED <<head, tail, pprev, cons, life, faults, swapLog, storeLog,
                   popLog>>

\* A push that takes the consumer's tail for prev instead of the node the
\* swap returned.
PushSwapPrevIsTail(p) ==
    /\ ppc[p] = "new"
    /\ pprev'  = [pprev EXCEPT ![p] = tail]
    /\ head'   = pnode[p]
    /\ psteps' = [psteps EXCEPT ![p] = @ + 1]
    /\ ppc'    = [ppc EXCEPT ![p] = "swapped"]
    /\ swapLog' = Append(swapLog, value[pnode[p]])
    /\ UNCHANGED <<tail, next, value, alloc, addr, dfree, pnode, pcount,
                   cons, life,
                   faults, pushed, origin, storeLog, popLog>>

\* push, line 60: let prev = self.head.swap(node, AcqRel).
PushSwap(p) ==
    /\ ppc[p] = "new"
    /\ pprev'  = [pprev EXCEPT ![p] = head]
    /\ head'   = pnode[p]
    /\ psteps' = [psteps EXCEPT ![p] = @ + 1]
    /\ ppc'    = [ppc EXCEPT ![p] = "swapped"]
    /\ swapLog' = Append(swapLog, value[pnode[p]])
    /\ UNCHANGED <<tail, next, value, alloc, addr, dfree, pnode, pcount,
                   cons, life,
                   faults, pushed, origin, storeLog, popLog>>

\* A push that stores prev into node's link: the two pointers exchanged.
PushStoreReversed(p) ==
    /\ ppc[p] = "swapped"
    /\ next'   = StoreTo(next, pnode[p], pprev[p])
    /\ faults' = faults \cup Touch(pnode[p])
    /\ psteps' = [psteps EXCEPT ![p] = @ + 1]
    /\ ppc'    = [ppc EXCEPT ![p] = "idle"]
    /\ storeLog' = Append(storeLog, value[pnode[p]])
    /\ pnode'  = [pnode EXCEPT ![p] = NULL]
    /\ pprev'  = [pprev EXCEPT ![p] = NULL]
    /\ UNCHANGED <<head, tail, value, alloc, addr, dfree, pcount, cons, life,
                   pushed, origin, swapLog, popLog>>

\* A push that links its node only once the consumer has reached prev.
PushStoreWaitsForConsumer(p) ==
    /\ ppc[p] = "swapped"
    /\ tail = pprev[p]
    /\ next'   = StoreTo(next, pprev[p], pnode[p])
    /\ faults' = faults \cup Touch(pprev[p])
    /\ psteps' = [psteps EXCEPT ![p] = @ + 1]
    /\ ppc'    = [ppc EXCEPT ![p] = "idle"]
    /\ storeLog' = Append(storeLog, value[pnode[p]])
    /\ pnode'  = [pnode EXCEPT ![p] = NULL]
    /\ pprev'  = [pprev EXCEPT ![p] = NULL]
    /\ UNCHANGED <<head, tail, value, alloc, addr, dfree, pcount, cons, life,
                   pushed, origin, swapLog, popLog>>

\* push, line 61: (*prev).next.store(node, Release); push returns.
PushStore(p) ==
    /\ ppc[p] = "swapped"
    /\ next'   = StoreTo(next, pprev[p], pnode[p])
    /\ faults' = faults \cup Touch(pprev[p])
    /\ psteps' = [psteps EXCEPT ![p] = @ + 1]
    /\ ppc'    = [ppc EXCEPT ![p] = "idle"]
    /\ storeLog' = Append(storeLog, value[pnode[p]])
    /\ pnode'  = [pnode EXCEPT ![p] = NULL]
    /\ pprev'  = [pprev EXCEPT ![p] = NULL]
    /\ UNCHANGED <<head, tail, value, alloc, addr, dfree, pcount, cons, life,
                   pushed, origin, swapLog, popLog>>

\* ------------------------------------------------- calls of the consumer
\* A call of pop (line 97) on a live queue.
PopCall(c) ==
    /\ queue = "alive"
    /\ cpc[c] = "idle"
    /\ cop'    = [cop EXCEPT ![c] = "pop"]
    /\ cpc'    = [cpc EXCEPT ![c] = "rp_tail"]
    /\ inLoop' = [inLoop EXCEPT ![c] = FALSE]
    /\ callSnap' = [callSnap EXCEPT ![c] = Returned]
    /\ UNCHANGED <<mem, prod, ctail, cnext, cret, lastRes, life, faults, logs>>

\* A call of is_empty (line 68) on a live queue.
IsEmptyCall(c) ==
    /\ queue = "alive"
    /\ cpc[c] = "idle"
    /\ cop'    = [cop EXCEPT ![c] = "is_empty"]
    /\ cpc'    = [cpc EXCEPT ![c] = "ie_tail"]
    /\ UNCHANGED <<mem, prod, ctail, cnext, cret, inLoop, lastRes, callSnap,
                   life, faults, logs>>

\* Drop::drop (line 114) takes &mut self: no other call is in progress and
\* none begins afterwards.  Its loop starts with a first call of pop.
DropCall(c) ==
    /\ queue = "alive"
    /\ \A p \in Producers : ppc[p] = "idle"
    /\ \A k \in Consumers : cpc[k] = "idle"
    /\ queue'    = "dropping"
    /\ dropM'    = Len(swapLog) - Len(popLog)
    /\ dropPops' = 0
    /\ cop'    = [cop EXCEPT ![c] = "drop"]
    /\ cpc'    = [cpc EXCEPT ![c] = "rp_tail"]
    /\ inLoop' = [inLoop EXCEPT ![c] = FALSE]
    /\ callSnap' = [callSnap EXCEPT ![c] = Returned]
    /\ UNCHANGED <<mem, prod, ctail, cnext, cret, lastRes, faults, logs>>

\* A drop that calls pop once (`if let` for `while let`).
PopReturnDropOnce(c, v) ==
    /\ lastRes' = [lastRes EXCEPT ![c] = [op |-> "pop", val |-> v]]
    /\ inLoop'  = [inLoop EXCEPT ![c] = FALSE]
    /\ ctail'   = [ctail EXCEPT ![c] = NULL]
    /\ cnext'   = [cnext EXCEPT ![c] = NULL]
    /\ cret'    = [cret EXCEPT ![c] = None]
    /\ dropM'   = dropM
    /\ cpc' = [cpc EXCEPT ![c] = "idle"]
    /\ cop' = [cop EXCEPT ![c] = "none"]
    /\ callSnap' = callSnap
    /\ dropPops' = IF cop[c] = "drop" /\ v # None THEN dropPops + 1
                                                  ELSE dropPops
    /\ queue' = IF cop[c] = "drop" THEN "dropped" ELSE queue

\* pop returns v (None or a value) to its caller.  A caller other than
\* drop is done; drop (line 115) calls pop again after Some(_) and
\* finishes after None.
PopReturn(c, v) ==
    /\ lastRes' = [lastRes EXCEPT ![c] = [op |-> "pop", val |-> v]]
    /\ inLoop'  = [inLoop EXCEPT ![c] = FALSE]
    /\ ctail'   = [ctail EXCEPT ![c] = NULL]
    /\ cnext'   = [cnext EXCEPT ![c] = NULL]
    /\ cret'    = [cret EXCEPT ![c] = None]
    /\ dropM'   = dropM
    /\ IF cop[c] = "drop" /\ v # None
       THEN /\ cpc' = [cpc EXCEPT ![c] = "rp_tail"]
            /\ cop' = cop
            /\ callSnap' = [callSnap EXCEPT ![c] = Returned]
            /\ dropPops' = dropPops + 1
            /\ queue' = queue
       ELSE /\ cpc' = [cpc EXCEPT ![c] = "idle"]
            /\ cop' = [cop EXCEPT ![c] = "none"]
            /\ callSnap' = callSnap
            /\ dropPops' = dropPops
            /\ queue' = IF cop[c] = "drop" THEN "dropped" ELSE queue

\* A panic (a failed assert!, unwrap of None, or line 105) ends the thread.
Panic(c, what) ==
    /\ cpc' = [cpc EXCEPT ![c] = what]
    /\ UNCHANGED <<cop, ctail, cnext, cret, inLoop, lastRes, callSnap, life>>

\* An access through pointer n that the hardware refuses: n points at no
\* node, the page is not mapped, and the signal ends the process.
Segv(c, n) ==
    /\ n \notin Nodes
    /\ faults' = faults \cup {"wild_access", "killed"}
    /\ Panic(c, "killed")
    /\ UNCHANGED <<mem, prod, logs>>

\* -------------------------------------------------------------- raw_pop
\* raw_pop, line 76: let tail = *self.tail.get().
RpTail(c) ==
    /\ cpc[c] = "rp_tail"
    /\ ctail' = [ctail EXCEPT ![c] = tail]
    /\ cpc'   = [cpc EXCEPT ![c] = "rp_next"]
    /\ UNCHANGED <<mem, prod, cop, cnext, cret, inLoop, lastRes, callSnap,
                   life, faults, logs>>

\* raw_pop, lines 77 and 79: let next = (*tail).next.load(Acquire), and the
\* test next.is_null().
RpNext(c) ==
    /\ cpc[c] = "rp_next"
    /\ \/ /\ \E nx \in LoadNext(ctail[c]) :
               /\ cnext' = [cnext EXCEPT ![c] = nx]
               /\ cpc'   = [cpc EXCEPT ![c] = IF nx # NULL THEN "rp_settail"
                                                           ELSE "rp_head"]
          /\ faults' = faults \cup Touch(ctail[c])
          /\ UNCHANGED <<mem, prod, cop, ctail, cret, inLoop, lastRes,
                         callSnap, life, logs>>
       \/ Segv(c, ctail[c])

\* A raw_pop that advances tail to head instead of to next.
RpSetTailToHead(c) ==
    /\ cpc[c] = "rp_settail"
    /\ tail' = head
    /\ cpc'  = [cpc EXCEPT ![c] = "rp_assert"]
    /\ UNCHANGED <<head, next, value, alloc, addr, dfree, prod, cop, ctail,
                   cnext, cret,
                   inLoop, lastRes, callSnap, life, faults, logs>>

\* A raw_pop that does not advance tail.
RpSetTailSkipped(c) ==
    /\ cpc[c] = "rp_settail"
    /\ tail' = tail
    /\ cpc'  = [cpc EXCEPT ![c] = "rp_assert"]
    /\ UNCHANGED <<head, next, value, alloc, addr, dfree, prod, cop, ctail,
                   cnext, cret,
                   inLoop, lastRes, callSnap, life, faults, logs>>

\* A raw_pop that clears the link of the node it retires when it advances
\* tail.
RpSetTailUnlinks(c) ==
    /\ cpc[c] = "rp_settail"
    /\ tail' = cnext[c]
    /\ next' = StoreTo(next, ctail[c], NULL)
    /\ cpc'  = [cpc EXCEPT ![c] = "rp_assert"]
    /\ UNCHANGED <<head, value, alloc, addr, dfree, prod, cop, ctail, cnext,
                   cret,
                   inLoop, lastRes, callSnap, life, faults, logs>>

\* raw_pop, line 80: *self.tail.get() = next.
RpSetTail(c) ==
    /\ cpc[c] = "rp_settail"
    /\ tail' = cnext[c]
    /\ cpc'  = [cpc EXCEPT ![c] = "rp_assert"]
    /\ UNCHANGED <<head, next, value, alloc, addr, dfree, prod, cop, ctail,
                   cnext, cret,
                   inLoop, lastRes, callSnap, life, faults, logs>>

\* raw_pop, lines 81-82: assert!((*tail).value.is_none());
\* assert!((*next).value.is_some()).  The second assert! is evaluated, and
\* next dereferenced, only when the first has passed.
RpAssert(c) ==
    /\ cpc[c] = "rp_assert"
    /\ \/ /\ \E a \in ReadValue(ctail[c]) :
               \/ /\ a # None
                  /\ Panic(c, "assert_failed")
                  /\ faults' = faults \cup Touch(ctail[c])
               \/ /\ a = None
                  /\ \E b \in ReadValue(cnext[c]) :
                       IF b # None
                       THEN /\ cpc' = [cpc EXCEPT ![c] = "rp_take"]
                            /\ UNCHANGED <<cop, ctail, cnext, cret, inLoop,
                                           lastRes, callSnap, life>>
                       ELSE Panic(c, "assert_failed")
                  /\ faults' = faults \cup Touch(ctail[c])
                                      \cup Touch(cnext[c])
               \/ /\ a = None
                  /\ cnext[c] \notin Nodes
                  /\ Panic(c, "killed")
                  /\ faults' = faults \cup Touch(ctail[c])
                                      \cup {"wild_access", "killed"}
          /\ UNCHANGED <<mem, prod, logs>>
       \/ Segv(c, ctail[c])

\* A raw_pop that takes the payload of the head node instead of next's.
RpTakeFromHead(c) ==
    /\ cpc[c] = "rp_take"
    /\ \E v \in ReadValue(head) :
         IF v # None
         THEN /\ cret' = [cret EXCEPT ![c] = v]
              /\ cpc'  = [cpc EXCEPT ![c] = "rp_free"]
              /\ UNCHANGED <<cop, ctail, cnext, inLoop, lastRes, callSnap,
                             life>>
         ELSE Panic(c, "unwrap_failed")
    /\ value'  = StoreTo(value, head, None)
    /\ faults' = faults \cup Touch(head)
    /\ UNCHANGED <<head, tail, next, alloc, addr, dfree, prod, logs>>

\* A raw_pop that copies the payload out and leaves it in the node.
RpTakeNoClear(c) ==
    /\ cpc[c] = "rp_take"
    /\ \E v \in ReadValue(cnext[c]) :
         IF v # None
         THEN /\ cret' = [cret EXCEPT ![c] = v]
              /\ cpc'  = [cpc EXCEPT ![c] = "rp_free"]
              /\ UNCHANGED <<cop, ctail, cnext, inLoop, lastRes, callSnap,
                             life>>
         ELSE Panic(c, "unwrap_failed")
    /\ value'  = value
    /\ faults' = faults \cup Touch(cnext[c])
    /\ UNCHANGED <<head, tail, next, alloc, addr, dfree, prod, logs>>

\* raw_pop, line 83: let ret = (*next).value.take().unwrap().
RpTake(c) ==
    /\ cpc[c] = "rp_take"
    /\ \/ /\ \E v \in ReadValue(cnext[c]) :
               IF v # None
               THEN /\ cret' = [cret EXCEPT ![c] = v]
                    /\ cpc'  = [cpc EXCEPT ![c] = "rp_free"]
                    /\ UNCHANGED <<cop, ctail, cnext, inLoop, lastRes,
                                   callSnap, life>>
               ELSE Panic(c, "unwrap_failed")
          /\ value'  = StoreTo(value, cnext[c], None)
          /\ faults' = faults \cup Touch(cnext[c])
          /\ UNCHANGED <<head, tail, next, alloc, addr, dfree, prod, logs>>
       \/ Segv(c, cnext[c])

\* raw_pop, line 83, as two threads can interleave it: Option::take is a
\* plain read of (*next).value followed by a plain write of None.  This is
\* the read.
RpTakeLoad(c) ==
    /\ cpc[c] = "rp_take"
    /\ \/ /\ \E v \in ReadValue(cnext[c]) : cret' = [cret EXCEPT ![c] = v]
          /\ cpc'    = [cpc EXCEPT ![c] = "rp_take_store"]
          /\ faults' = faults \cup Touch(cnext[c])
          /\ UNCHANGED <<mem, prod, cop, ctail, cnext, inLoop, lastRes,
                         callSnap, life, logs>>
       \/ Segv(c, cnext[c])

\* raw_pop, line 83, continued: the write of None, then unwrap() of what the
\* read saw.
RpTakeStore(c) ==
    /\ cpc[c] = "rp_take_store"
    /\ \/ /\ value'  = StoreTo(value, cnext[c], None)
          /\ faults' = faults \cup Touch(cnext[c])
          /\ IF cret[c] # None
             THEN /\ cpc' = [cpc EXCEPT ![c] = "rp_free"]
                  /\ UNCHANGED <<cop, ctail, cnext, cret, inLoop, lastRes,
                                 callSnap, life>>
             ELSE Panic(c, "unwrap_failed")
          /\ UNCHANGED <<head, tail, next, alloc, addr, dfree, prod, logs>>
       \/ Segv(c, cnext[c])

\* A raw_pop that forgets the old tail node instead of freeing it.
RpFreeLeaks(c) ==
    /\ cpc[c] = "rp_free"
    /\ alloc'  = alloc
    /\ faults' = faults
    /\ popLog' = Append(popLog, cret[c])
    /\ PopReturn(c, cret[c])
    /\ UNCHANGED <<head, tail, next, value, addr, dfree, prod, pushed,
                   origin, swapLog,
                   storeLog>>

\* A raw_pop that frees the node it has just advanced to instead of the old
\* tail node.
RpFreeNext(c) ==
    /\ cpc[c] = "rp_free"
    /\ alloc'  = StoreTo(alloc, cnext[c], "freed")
    /\ faults' = faults \cup (IF Live(cnext[c])
                              THEN {} ELSE {"double_free"})
    /\ popLog' = Append(popLog, cret[c])
    /\ PopReturn(c, cret[c])
    /\ UNCHANGED <<head, tail, next, value, addr, dfree, prod, pushed,
                   origin, swapLog,
                   storeLog>>

\* raw_pop, lines 84-85: the old tail node is freed and Data(ret) returned;
\* pop (line 100 or 104) returns Some(ret).  Box::from_raw(tail) frees the
\* block at tail's address.  When no node lives there (the block was freed
\* before, or tail points at no node), the allocator either does not
\* notice, puts the block on its free list once more, and pop returns, or
\* it detects the corruption and aborts the process inside free().
RpFree(c) ==
    /\ cpc[c] = "rp_free"
    /\ alloc' = StoreTo(alloc, ctail[c], "freed")
    /\ \/ /\ faults' = faults \cup (IF Live(ctail[c])
                                    THEN {} ELSE {"double_free"})
          /\ dfree' = IF ctail[c] \in Nodes /\ ~Live(Deref(ctail[c]))
                      THEN dfree \cup {addr[ctail[c]]} ELSE dfree
          /\ popLog' = Append(popLog, cret[c])
          /\ PopReturn(c, cret[c])
       \/ /\ ~Live(Deref(ctail[c]))
          /\ faults' = faults \cup {"double_free", "aborted"}
          /\ dfree' = dfree
          /\ popLog' = popLog
          /\ Panic(c, "aborted")
    /\ UNCHANGED <<head, tail, next, value, addr, prod, pushed, origin,
                   swapLog,
                   storeLog>>

\* A raw_pop that reports Empty whenever next is null, without looking at
\* head.
RawPopResultNoHeadCheck(h, t) == "Empty"

\* A raw_pop with the two arms of the head comparison exchanged.
RawPopResultArmsSwapped(h, t) == IF h = t THEN "Inconsistent" ELSE "Empty"

\* raw_pop, lines 88-92: the result when next was null, from the head load;
\* h and t are the addresses the two pointers hold.
RawPopResult(h, t) == IF h = t THEN "Empty" ELSE "Inconsistent"

\* raw_pop, line 88: self.head.load(Acquire) == tail, and what pop does with
\* the result: Empty => None (line 99), Inconsistent => enter or stay in the
\* loop (lines 101, 106), Empty inside the loop => panic (line 105).
RpHead(c) ==
    /\ cpc[c] = "rp_head"
    /\ LET r == RawPopResult(Addr(head), Addr(ctail[c])) IN
         IF r = "Inconsistent"
         THEN /\ inLoop' = [inLoop EXCEPT ![c] = TRUE]
              /\ cpc'    = [cpc EXCEPT ![c] = "yield"]
              /\ UNCHANGED <<cop, ctail, cnext, cret, lastRes, callSnap,
                             life>>
         ELSE IF inLoop[c]
              THEN Panic(c, "panicked")
              ELSE PopReturn(c, None)
    /\ UNCHANGED <<mem, prod, faults, logs>>

\* pop, lines 102-103: yield_now(), then the next raw_pop attempt.
Yield(c) ==
    /\ cpc[c] = "yield"
    /\ cpc' = [cpc EXCEPT ![c] = "rp_tail"]
    /\ UNCHANGED <<mem, prod, cop, ctail, cnext, cret, inLoop, lastRes,
                   callSnap, life, faults, logs>>

\* ------------------------------------------------------------- is_empty
\* is_empty, line 69: let tail = *self.tail.get().
IeTail(c) ==
    /\ cpc[c] = "ie_tail"
    /\ ctail' = [ctail EXCEPT ![c] = tail]
    /\ cpc'   = [cpc EXCEPT ![c] = "ie_head"]
    /\ UNCHANGED <<mem, prod, cop, cnext, cret, inLoop, lastRes, callSnap,
                   life, faults, logs>>

\* An is_empty that tests the tail node's link instead of comparing head.
IeHeadTestsNext(c) ==
    /\ cpc[c] = "ie_head"
    /\ lastRes' = [lastRes EXCEPT ![c] =
                     [op |-> "is_empty", val |-> (next[ctail[c]] = NULL)]]
    /\ ctail' = [ctail EXCEPT ![c] = NULL]
    /\ cpc'   = [cpc EXCEPT ![c] = "idle"]
    /\ cop'   = [cop EXCEPT ![c] = "none"]
    /\ UNCHANGED <<mem, prod, cnext, cret, inLoop, callSnap, life, faults,
                   logs>>

\* is_empty, line 71: self.head.load(Acquire) == tail, returned.
IeHead(c) ==
    /\ cpc[c] = "ie_head"
    /\ lastRes' = [lastRes EXCEPT ![c] =
                     [op |-> "is_empty", val |-> (Addr(head) = Addr(ctail[c]))]]
    /\ ctail' = [ctail EXCEPT ![c] = NULL]
    /\ cpc'   = [cpc EXCEPT ![c] = "idle"]
    /\ cop'   = [cop EXCEPT ![c] = "none"]
    /\ UNCHANGED <<mem, prod, cnext, cret, inLoop, callSnap, life, faults,
                   logs>>

\* -------------------------------------------------------- specification
\* Any number of producers and the one consumer the contract allows.
Next ==
    \/ \E p \in Producers : PushNew(p)
    \/ \E p \in Producers : PushSwap(p)
    \/ \E p \in Producers : PushStore(p)
    \/ \E c \in OneConsumer : PopCall(c)
    \/ \E c \in OneConsumer : IsEmptyCall(c)
    \/ \E c \in OneConsumer : DropCall(c)
    \/ \E c \in OneConsumer : RpTail(c)
    \/ \E c \in OneConsumer : RpNext(c)
    \/ \E c \in OneConsumer : RpSetTail(c)
    \/ \E c \in OneConsumer : RpAssert(c)
    \/ \E c \in OneConsumer : RpTake(c)
    \/ \E c \in OneConsumer : RpFree(c)
    \/ \E c \in OneConsumer : RpHead(c)
    \/ \E c \in OneConsumer : Yield(c)
    \/ \E c \in OneConsumer : IeTail(c)
    \/ \E c \in OneConsumer : IeHead(c)

Spec == Init /\ [][Next]_vars

\* The steps a consumer thread takes inside a call, once it has made it.
ConsumerStep(c) ==
    \/ RpTail(c) \/ RpNext(c) \/ RpSetTail(c) \/ RpAssert(c) \/ RpTake(c)
    \/ RpFree(c) \/ RpHead(c) \/ Yield(c) \/ IeTail(c) \/ IeHead(c)

\* The same program under a fair scheduler: a thread that is inside push, or
\* inside a call of the consumer, eventually takes its next step.
FairSpec ==
    /\ Spec
    /\ \A p \in Producers : WF_vars(PushSwap(p)) /\ WF_vars(PushStore(p))
    /\ \A c \in OneConsumer : WF_vars(ConsumerStep(c))

\* The threads that are inside a call of pop and have not panicked.
Popping ==
    {c \in Consumers :
       cpc[c] \notin {"idle", "assert_failed", "unwrap_failed", "panicked",
                      "aborted", "killed"}}

\* The queue used against its contract: two threads call pop, one thread
\* pushes.  Each access of raw_pop is a step of its thread, the read and the
\* write of line 83 included.  The threads run on after a memory-safety
\* fault, with whatever the faulty access produced, until the allocator
\* aborts the process or a signal ends it.  Push calls are bounded by
\* MaxRacedPushes, and so are the values already returned plus the calls of
\* pop in progress when a further call of pop begins.
NextTwo ==
    \/ \E p \in OneProducer :
         Running /\ pcount[p] < MaxRacedPushes /\ PushNew(p)
    \/ \E p \in OneProducer : Running /\ PushSwap(p)
    \/ \E p \in OneProducer : Running /\ PushStore(p)
    \/ \E c \in Consumers :
         /\ Running
         /\ Len(popLog) + Cardinality(Popping) <= MaxRacedPushes
         /\ PopCall(c)
    \/ \E c \in Consumers : Running /\ RpTail(c)
    \/ \E c \in Consumers : Running /\ RpNext(c)
    \/ \E c \in Consumers : Running /\ RpSetTail(c)
    \/ \E c \in Consumers : Running /\ RpAssert(c)
    \/ \E c \in Consumers : Running /\ RpTakeLoad(c)
    \/ \E c \in Consumers : Running /\ RpTakeStore(c)
    \/ \E c \in Consumers : Running /\ RpFree(c)
    \/ \E c \in Consumers : Running /\ RpHead(c)
    \/ \E c \in Consumers : Running /\ Yield(c)

SpecTwoConsumers == Init /\ [][NextTwo]_vars

\* ================================================================ claims
\* The step in which consumer c's pop returns None (line 99).
ReturnsNone(c) == cpc[c] = "rp_head" /\ cpc'[c] = "idle"

\* The step in which consumer c's pop returns Some(_) (line 100 or 104).
ReturnsSome(c) == cpc[c] = "rp_free" /\ cpc'[c] \in {"idle", "rp_tail"}

\* The position of value v in the sequence s (0 when absent).
PosIn(s, v) == IF v \in Range(s) THEN CHOOSE i \in 1..Len(s) : s[i] = v ELSE 0

\* No value occurs twice in the sequence s.
NoDup(s) == \A i, j \in 1..Len(s) : i # j => s[i] # s[j]

\* C1: FIFO per producer.  When pop has returned the k-th value pushed by
\* producer p, it has returned p's first k-1 values before it, in the order
\* p pushed them, whatever the other producers and the consumer did.
C1_FifoPerProducer ==
    /\ \A j \in 1..Len(popLog) :
         \A k \in 1..(popLog[j][2] - 1) :
           \E i \in 1..(j - 1) :
             popLog[i][1] = popLog[j][1] /\ popLog[i][2] = k
    /\ \A i, j \in 1..Len(popLog) :
         (i < j /\ popLog[i][1] = popLog[j][1]) => popLog[i][2] < popLog[j][2]

\* Two values of one producer have been popped while the other producer has
\* pushed too.
C1_Witness ==
    \E i, j \in 1..Len(popLog) :
      /\ i < j
      /\ popLog[i][1] = popLog[j][1]
      /\ \E v \in Range(swapLog) : v[1] # popLog[i][1]

\* C2: no loss, no duplication, no fabrication.  pop never returns a value
\* twice nor a value that was not pushed, and when pop returns None while
\* every push called so far has returned, the multiset of the values pop has
\* returned is the multiset of the values pushed.
C2_NoLossNoDup ==
    [][ /\ NoDup(popLog')
        /\ Range(popLog') \subseteq pushed'
        /\ \A c \in OneConsumer :
             (ReturnsNone(c) /\ \A p \in Producers : ppc[p] = "idle")
               => BagOf(popLog') = SetToBag(pushed') ]_vars

\* pop has returned None after all MaxPushes pushes, made by both producers,
\* have returned and all their values have been popped.
C2_Witness ==
    /\ lastRes["c1"] = [op |-> "pop", val |-> None]
    /\ cpc["c1"] = "idle"
    /\ \A p \in Producers : ppc[p] = "idle" /\ pcount[p] > 0
    /\ Len(popLog) = MaxPushes
    /\ Len(storeLog) = MaxPushes

\* C3: pop never reports a false empty.  In the step in which pop returns
\* None, head equals tail, every value whose push has executed its swap has
\* been returned by an earlier pop, and so has every value whose push had
\* returned when this pop was called.
C3_NoFalseEmpty ==
    [][ \A c \in OneConsumer :
          ReturnsNone(c) =>
            /\ head = tail
            /\ Len(swapLog) = Len(popLog)
            /\ Range(swapLog) = Range(popLog)
            /\ callSnap[c] \subseteq Range(popLog) ]_vars

\* pop has returned None on a queue through which values have passed: pushes
\* had returned when that pop was called, and a later push has allocated its
\* node but not yet swapped head.
C3_Witness ==
    /\ lastRes["c1"] = [op |-> "pop", val |-> None]
    /\ cpc["c1"] = "idle"
    /\ queue = "alive"
    /\ callSnap["c1"] # {}
    /\ \E p \in Producers : ppc[p] = "new"

\* C5: the internal-consistency fault is unreachable.  With one consumer, an
\* attempt made inside pop's retry loop never finds head equal to its tail,
\* so line 105 (panic "inconsistent => empty") is never executed.
C5_NoPanic ==
    \A c \in OneConsumer :
      /\ cpc[c] # "panicked"
      /\ (inLoop[c] /\ cpc[c] = "rp_head") => head # ctail[c]

\* A retry attempt has again found next null and is about to load head.
C5_Witness == inLoop["c1"] /\ cpc["c1"] = "rp_head"

\* C7: across producers, pop returns the values in the order in which their
\* pushes executed the swap on head: the values returned so far are a prefix
\* of the swap order, whatever the order of the prev.next stores.
C7_SwapOrder ==
    /\ Len(popLog) <= Len(swapLog)
    /\ \A i \in 1..Len(popLog) : popLog[i] = swapLog[i]

\* Two values of different producers have been popped, and the push whose
\* swap came first executed its prev.next store last.
C7_Witness ==
    \E i, j \in 1..Len(popLog) :
      /\ i < j
      /\ popLog[i][1] # popLog[j][1]
      /\ PosIn(swapLog, popLog[i]) < PosIn(swapLog, popLog[j])
      /\ PosIn(storeLog, popLog[j]) < PosIn(storeLog, popLog[i])

\* C4: inconsistent-state liveness.  Under a fair scheduler a pop that has
\* observed Inconsistent, with k-1 values popped before it, eventually
\* returns Some(v), v being the k-th value in swap order (the value of the
\* node that follows the current tail); and the step in which a pop that has
\* observed Inconsistent returns is never a return of None.
C4_InconsistentLiveness ==
    /\ \A k \in 1..MaxPushes :
         (inLoop["c1"] /\ Len(popLog) = k - 1)
           ~> (/\ Len(popLog) = k
               /\ Len(swapLog) >= k
               /\ lastRes["c1"] = [op |-> "pop", val |-> swapLog[k]]
               /\ ~inLoop["c1"])
    /\ [][ \A c \in OneConsumer :
             (inLoop[c] /\ ~inLoop'[c]) => (ReturnsSome(c) /\ cret[c] # None)
         ]_vars

\* The consumer is retrying after Inconsistent while the push that follows
\* its tail has swapped head and not yet stored prev.next.
C4_Witness ==
    /\ inLoop["c1"]
    /\ cpc["c1"] = "yield"
    /\ \E p \in Producers : ppc[p] = "swapped" /\ pprev[p] = tail

\* C6: push is wait-free.  A push takes exactly three steps of its own
\* (allocate, swap, store): after its first step the swap is enabled, after
\* its second the store is enabled, whatever state the other producers and
\* the consumer are in, and after its third it has returned.
C6_PushWaitFree ==
    \A p \in Producers :
      /\ psteps[p] <= 3
      /\ ppc[p] = "new" => (psteps[p] = 1 /\ ENABLED PushSwap(p))
      /\ ppc[p] = "swapped" => (psteps[p] = 2 /\ ENABLED PushStore(p))
      /\ (ppc[p] = "idle" /\ pcount[p] > 0) => psteps[p] = 3

\* A producer has completed a push, begun after the other producer's swap,
\* while that other producer is stalled between its swap and its store and
\* the consumer, which waits for it, is retrying.
C6_Witness ==
    \E p, q \in Producers :
      /\ p # q
      /\ ppc[q] = "swapped" /\ pprev[q] = tail
      /\ inLoop["c1"]
      /\ ppc[p] = "idle" /\ psteps[p] = 3
      /\ \E v \in Range(storeLog) :
           v[1] = p /\ PosIn(swapLog, v) > PosIn(swapLog, value[pnode[q]])

\* C8: is_empty returns true exactly when head equals the consumer's tail at
\* its head load, that is, exactly when as many pushes have swapped head as
\* values have been popped; and when no push is in progress, exactly when a
\* pop made now would return None (tail's link null and head equal to tail).
C8_IsEmpty ==
    [][ \A c \in OneConsumer :
          (cpc[c] = "ie_head" /\ cpc'[c] = "idle") =>
            /\ lastRes'[c].op = "is_empty"
            /\ lastRes'[c].val = (head = tail)
            /\ lastRes'[c].val = (Len(swapLog) = Len(popLog))
            /\ (\A p \in Producers : ppc[p] = "idle") =>
                 (lastRes'[c].val = (next[tail] = NULL /\ head = tail))
      ]_vars

\* is_empty has returned false, no call of the consumer has begun since, and
\* the tail node's link is still null: the push had swapped head and not yet
\* linked its node.
C8_Witness ==
    /\ lastRes["c1"] = [op |-> "is_empty", val |-> FALSE]
    /\ cpc["c1"] = "idle"
    /\ next[tail] = NULL

\* C9: destruction drains.  While drop runs, no attempt observes Inconsistent
\* and nothing panics; drop, started with M values unpopped, finishes, and
\* when it has finished it has seen exactly M Some(_), every pushed value has
\* been returned exactly once, and no node that is still allocated holds a
\* payload.
C9_DropDrains ==
    /\ [](queue # "alive" =>
            /\ \A c \in OneConsumer :
                 /\ ~inLoop[c]
                 /\ cpc[c] \notin {"yield", "panicked", "assert_failed",
                                   "unwrap_failed"}
            /\ dropPops <= dropM)
    /\ [](queue = "dropped" =>
            /\ dropPops = dropM
            /\ popLog = swapLog
            /\ NoDup(popLog)
            /\ Range(popLog) = pushed
            /\ \A n \in Nodes : alloc[n] = "live" => value[n] = None)
    /\ (queue = "dropping") ~> (queue = "dropped")

\* drop has finished on a queue that held two or more unpopped values.
C9_Witness == queue = "dropped" /\ dropM >= 2 /\ dropPops = dropM

\* C10: when drop has finished, every node that a push allocated and linked
\* into the chain has been deallocated.
C10_AllLinkedNodesFreed ==
    queue = "dropped" =>
      \A n \in Nodes \ {0} : alloc[n] # "unalloc" => alloc[n] = "freed"

\* The node that was allocated for value v.
NodeOf(v) == CHOOSE n \in Nodes : origin[n] = v

\* C11: node accounting at destruction.  When drop has finished, exactly one
\* node is still allocated, the one tail points at: the node of the last
\* value popped, or the stub when nothing was ever pushed.  Every other node
\* ever allocated (the stub and one per push) has been freed, and none twice.
C11_OneNodeLeft ==
    queue = "dropped" =>
      /\ {n \in Nodes : alloc[n] = "live"} = {tail}
      /\ tail = IF popLog = <<>> THEN 0 ELSE NodeOf(popLog[Len(popLog)])
      /\ pushed = {} => tail = 0
      /\ \A n \in Nodes \ {tail} :
           (n = 0 \/ origin[n] \in pushed) => alloc[n] = "freed"
      /\ Cardinality({n \in Nodes : alloc[n] = "freed"}) = Len(popLog)
      /\ NumAllocated = Cardinality(pushed) + 1
      /\ "double_free" \notin faults

\* drop has finished after pushes and pops: values were popped before drop
\* began and drop popped the rest.
C11_Witness ==
    /\ queue = "dropped"
    /\ dropPops >= 1
    /\ Len(popLog) > dropPops
    /\ alloc[0] = "freed"

\* C12: empty-queue contract.  As long as no push has begun on the queue that
\* new() returned, head and tail both point at the one stub node, whose
\* value is none and whose link is null; every pop returns None from its
\* first attempt, without retrying or panicking, and every is_empty returns
\* true.
C12_EmptyQueue ==
    /\ [](pushed = {} =>
            /\ head = 0 /\ tail = 0
            /\ {n \in Nodes : alloc[n] # "unalloc"} = {0}
            /\ alloc[0] = "live" /\ value[0] = None /\ next[0] = NULL
            /\ \A c \in OneConsumer :
                 /\ ~inLoop[c]
                 /\ cpc[c] \in {"idle", "rp_tail", "rp_next", "rp_head",
                                "ie_tail", "ie_head"}
                 /\ lastRes[c].op = "pop" => lastRes[c].val = None
                 /\ lastRes[c].op = "is_empty" => lastRes[c].val = TRUE)
    /\ [][ \A c \in OneConsumer :
             pushed = {} =>
               /\ (cpc[c] = "rp_head" /\ cpc'[c] # "rp_head")
                    => (ReturnsNone(c) /\ lastRes'[c].val = None)
               /\ (cpc[c] = "ie_head" /\ cpc'[c] # "ie_head")
                    => lastRes'[c] = [op |-> "is_empty", val |-> TRUE]
         ]_vars

\* pop has returned None on the queue that new() returned, before any push
\* has begun.
C12_Witness ==
    /\ pushed = {}
    /\ queue = "alive"
    /\ cpc["c1"] = "idle"
    /\ lastRes["c1"] = [op |-> "pop", val |-> None]

\* Consumer c is inside a pop, and the push of the oldest value not yet
\* popped had returned when that pop was called.
OldestWasPushed(c) ==
    /\ cop[c] \in {"pop", "drop"}
    /\ cpc[c] # "idle"
    /\ Len(swapLog) > Len(popLog)
    /\ swapLog[Len(popLog) + 1] \in callSnap[c]

\* C13: single-item round trip.  A pop called after push(x) has returned, x
\* being the oldest value not yet popped (as it is when the queue was empty
\* with no push in flight before push(x)), returns Some(x) from its first
\* attempt; if no other push has swapped head by then, the queue is empty
\* again: head equals tail, and as long as that is so is_empty returns true
\* and pop returns None.
C13_RoundTrip ==
    /\ [](\A c \in OneConsumer :
            OldestWasPushed(c) =>
              /\ ~inLoop[c]
              /\ cpc[c] \in {"rp_tail", "rp_next", "rp_settail", "rp_assert",
                             "rp_take", "rp_free"})
    /\ [][ \A c \in OneConsumer :
             /\ (OldestWasPushed(c) /\ ReturnsSome(c)) =>
                  /\ lastRes'[c] =
                       [op |-> "pop", val |-> swapLog[Len(popLog) + 1]]
                  /\ Len(swapLog) = Len(popLog) + 1 =>
                       (head' = tail' /\ next'[tail'] = NULL
                          /\ value'[tail'] = None)
             /\ (Len(swapLog) = Len(popLog) /\ cpc[c] = "ie_head"
                   /\ cpc'[c] # "ie_head") =>
                  lastRes'[c] = [op |-> "is_empty", val |-> TRUE]
             /\ (Len(swapLog) = Len(popLog) /\ cpc[c] = "rp_head"
                   /\ cpc'[c] # "rp_head") =>
                  (ReturnsNone(c) /\ lastRes'[c].val = None)
         ]_vars

\* On a queue that was empty, push(x) returned, then pop was called and
\* returned Some(x), and the queue is empty again.
C13_Witness ==
    \E x \in Values :
      /\ pushed = {x}
      /\ storeLog = <<x>>
      /\ popLog = <<x>>
      /\ x \in callSnap["c1"]
      /\ lastRes["c1"] = [op |-> "pop", val |-> x]
      /\ cpc["c1"] = "idle"
      /\ queue = "alive"
      /\ head = tail

\* The nodes met by following next pointers from node n, n first, for at
\* most k links.
RECURSIVE ChainFrom(_, _)
ChainFrom(n, k) ==
    IF k = 0 \/ next[n] = NULL THEN <<n>>
    ELSE <<n>> \o ChainFrom(next[n], k - 1)

\* The nodes linked after tail, in link order.
AfterTail == Tail(ChainFrom(tail, MaxPushes))

\* C14 as stated: neither assert! nor the unwrap ever fails; when the
\* consumer has found tail.next non-null, its tail node holds no payload and
\* the next node holds one; and in every state the node Queue.tail points at
\* holds no payload and every node linked after it holds one.
C14_SentinelAsStated ==
    \A c \in OneConsumer :
      /\ cpc[c] \notin {"assert_failed", "unwrap_failed"}
      /\ cpc[c] \in {"rp_settail", "rp_assert"} =>
           /\ alloc[ctail[c]] = "live" /\ alloc[cnext[c]] = "live"
           /\ value[ctail[c]] = None
           /\ value[cnext[c]] # None
      /\ value[tail] = None
      /\ \A i \in 1..Len(AfterTail) : value[AfterTail[i]] # None

\* C14: the assertions of raw_pop hold with one consumer.  Neither assert!
\* nor the unwrap ever fails; when the consumer has found tail.next
\* non-null, its tail node holds no payload and the next node holds one; in
\* every state each node linked after Queue.tail holds a payload; and the
\* node Queue.tail points at holds no payload except between the advance of
\* tail (line 80) and the take (line 83), where Queue.tail is already the
\* node whose payload is about to be taken and the payload-free node is the
\* one raw_pop still holds in its local tail.
C14_AssertsHold ==
    \A c \in OneConsumer :
      /\ cpc[c] \notin {"assert_failed", "unwrap_failed"}
      /\ cpc[c] \in {"rp_settail", "rp_assert"} =>
           /\ alloc[ctail[c]] = "live" /\ alloc[cnext[c]] = "live"
           /\ value[ctail[c]] = None
           /\ value[cnext[c]] # None
      /\ \A i \in 1..Len(AfterTail) : value[AfterTail[i]] # None
      /\ IF cpc[c] \in {"rp_assert", "rp_take"}
         THEN /\ tail = cnext[c]
              /\ value[tail] # None
              /\ alloc[ctail[c]] = "live"
              /\ value[ctail[c]] = None
              /\ next[ctail[c]] = tail
         ELSE value[tail] = None

\* Both assertions have just passed on a tail node that once carried a
\* payload, with a further node linked behind next.
C14_Witness ==
    /\ cpc["c1"] = "rp_take"
    /\ ctail["c1"] # 0
    /\ next[cnext["c1"]] # NULL

\* C15: no use after free and no double free with one consumer.  No access
\* ever touches a freed node and no node is freed twice; head and tail point
\* at live nodes; the prev of a push that has not yet stored prev.next is
\* live and its link is still null; and the node the consumer is about to
\* free is one whose link it has read as non-null, so no push still has a
\* store to it pending.
C15_NoUseAfterFree ==
    /\ faults = {}
    /\ alloc[head] = "live"
    /\ alloc[tail] = "live"
    /\ \A p \in Producers :
         /\ ppc[p] \in {"new", "swapped"} => alloc[pnode[p]] = "live"
         /\ ppc[p] = "swapped" =>
              (alloc[pprev[p]] = "live" /\ next[pprev[p]] = NULL)
    /\ \A c \in OneConsumer :
         /\ cpc[c] \in {"rp_next", "rp_head", "ie_head"} =>
              alloc[ctail[c]] = "live"
         /\ cpc[c] \in {"rp_settail", "rp_assert", "rp_take", "rp_free"} =>
              /\ alloc[ctail[c]] = "live"
              /\ alloc[cnext[c]] = "live"
              /\ cnext[c] # NULL
              /\ next[ctail[c]] = cnext[c]
              /\ \A p \in Producers :
                   ppc[p] = "swapped" => pprev[p] # ctail[c]

\* The consumer has freed the stub and a node that carried a value, and is
\* retrying at a tail node to which a push still has its store pending.
C15_Witness ==
    /\ alloc[0] = "freed"
    /\ \E n \in Nodes \ {0} : alloc[n] = "freed"
    /\ cpc["c1"] = "yield"
    /\ \E p \in Producers : ppc[p] = "swapped" /\ pprev[p] = tail

\* The nodes in the order they became head: the stub of Queue::new, then the
\* node of every push in the order of the head swaps.
SwapOrder == <<0>> \o [i \in 1..Len(swapLog) |-> NodeOf(swapLog[i])]

\* The nodes from tail onward in that order.
FromTailOnward ==
    LET i == CHOOSE j \in 1..Len(SwapOrder) : SwapOrder[j] = tail
    IN  SubSeq(SwapOrder, i, Len(SwapOrder))

\* The nodes that are allocated and not freed.
Unfreed == {n \in Nodes : alloc[n] = "live"}

\* The pushes between their head swap (line 60) and their store (line 61).
InWindow == {p \in Producers : ppc[p] = "swapped"}

\* The consumers between the advance of tail (line 80) and the free of the
\* old tail node (line 84).
Retiring == {c \in OneConsumer : cpc[c] \in {"rp_assert", "rp_take", "rp_free"}}

\* C16 as stated: in every reachable state the unfreed nodes are exactly
\* those from tail onward in swap order; the unfreed nodes with a null link
\* number one more than the pushes between swap and store; and when no push
\* is in that window the links lead from tail to head in (values pushed
\* minus values popped) steps, over the unpopped values in FIFO order, with
\* head's link null.
C16_ChainAsStated ==
    /\ Unfreed = Range(FromTailOnward)
    /\ Cardinality({n \in Unfreed : next[n] = NULL}) = 1 + Cardinality(InWindow)
    /\ InWindow = {} =>
         LET ch == ChainFrom(tail, MaxPushes) IN
           /\ ch[Len(ch)] = head
           /\ next[head] = NULL
           /\ Len(ch) - 1 = Len(swapLog) - Len(popLog)
           /\ \A i \in 1..(Len(ch) - 1) :
                value[ch[i + 1]] = swapLog[Len(popLog) + i]

\* C16, chain invariant.  Of the stub and the nodes that a head swap has
\* published, the unfreed ones are exactly those from tail onward in swap
\* order, together with the old tail node while the consumer is between the
\* advance of tail and the free; the only other unfreed nodes are those a
\* push has allocated and not yet swapped in.  The published unfreed nodes
\* with a null link number one more than the pushes between swap and store.
\* When no push is in that window the links lead from tail to head, head's
\* link is null, the nodes after tail carry the most recently swapped values
\* in swap order, and their number is the values swapped minus the values
\* pop has returned, less one while the consumer is between the advance of
\* tail and its return.
C16_ChainInvariant ==
    LET published == Range(SwapOrder) IN
    /\ NoDup(SwapOrder)
    /\ tail \in published
    /\ Unfreed \cap published =
         Range(FromTailOnward) \cup {ctail[c] : c \in Retiring}
    /\ Unfreed \ published = {pnode[p] : p \in {q \in Producers : ppc[q] = "new"}}
    /\ Cardinality({n \in Unfreed \cap published : next[n] = NULL})
         = 1 + Cardinality(InWindow)
    /\ InWindow = {} =>
         LET ch == ChainFrom(tail, MaxPushes) IN
           /\ ch = FromTailOnward
           /\ ch[Len(ch)] = head
           /\ next[head] = NULL
           /\ Len(ch) - 1 = Len(swapLog) - Len(popLog) - Cardinality(Retiring)
           /\ \A i \in 1..(Len(ch) - 1) :
                /\ origin[ch[i + 1]] = swapLog[Len(swapLog) - (Len(ch) - 1) + i]
                /\ value[ch[i + 1]] = origin[ch[i + 1]]

\* One value has been popped, no push is between swap and store, and two
\* values are linked after tail.
C16_Witness ==
    /\ Len(popLog) >= 1
    /\ InWindow = {}
    /\ Retiring = {}
    /\ Len(AfterTail) >= 2
    /\ AfterTail[Len(AfterTail)] = head

\* The push whose head swap returned node n as prev has executed its store
\* to n's link.
LinkStored(n) ==
    \E j \in 1..Len(swapLog) :
      SwapOrder[j] = n /\ swapLog[j] \in Range(storeLog)

\* Some push has executed the head swap that returned node n as prev.
SwappedAfter(n) == \E j \in 1..Len(swapLog) : SwapOrder[j] = n

\* C17: three-way classification of a pop attempt.  raw_pop takes the Data
\* branch only when the load of tail.next was non-null, which is exactly when
\* the push that got the tail node as prev had stored its link; it returns
\* Empty only when that load was null and the later head load equalled tail;
\* and it returns Inconsistent only when that load was null because the push
\* that got the tail node as prev had not stored yet at the time of the load,
\* and by the head load such a push has executed its swap.
C17_Classification ==
    [][ \A c \in OneConsumer :
          /\ (cpc[c] = "rp_next" /\ cpc'[c] = "rp_settail") =>
               /\ cnext'[c] = next[ctail[c]]
               /\ cnext'[c] # NULL
               /\ LinkStored(ctail[c])
          /\ (cpc[c] = "rp_next" /\ cpc'[c] = "rp_head") =>
               /\ cnext'[c] = NULL
               /\ next[ctail[c]] = NULL
               /\ ~LinkStored(ctail[c])
          /\ (cpc[c] = "rp_next" /\ cpc'[c] # "rp_next") =>
               cpc'[c] \in {"rp_settail", "rp_head"}
          /\ ReturnsSome(c) =>
               /\ cnext[c] # NULL
               /\ next[ctail[c]] = cnext[c]
          /\ (cpc[c] = "rp_head" /\ cpc'[c] \in {"idle", "panicked"}) =>
               /\ cnext[c] = NULL
               /\ head = ctail[c]
               /\ tail = ctail[c]
               /\ ~SwappedAfter(ctail[c])
          /\ (cpc[c] = "rp_head" /\ cpc'[c] = "yield") =>
               /\ cnext[c] = NULL
               /\ head # ctail[c]
               /\ tail = ctail[c]
               /\ SwappedAfter(ctail[c])
      ]_vars

\* raw_pop has returned Inconsistent for a tail node whose link was null at
\* the load and has been stored since.
C17_Witness ==
    /\ cpc["c1"] = "yield"
    /\ cnext["c1"] = NULL
    /\ next[ctail["c1"]] # NULL
    /\ LinkStored(ctail["c1"])
    /\ Len(popLog) >= 1

\* A push has got node n as prev from its head swap and has not yet stored
\* n's link.
StorePending(n) == \E p \in Producers : ppc[p] = "swapped" /\ pprev[p] = n

\* C18 as stated: while the push whose head swap returned the current tail
\* node as prev has not stored prev.next, no pop call returns, neither a
\* value nor None.
C18_BlockedAsStated ==
    [][ StorePending(tail) =>
          \A c \in OneConsumer : ~ReturnsSome(c) /\ ~ReturnsNone(c) ]_vars

\* C18: one stalled producer blocks the consumer.  A raw_pop attempt that
\* has read the tail cell (line 76) cannot return a value or None while the
\* push that got that node as prev has not stored its link: its load of
\* next finds null, its head load finds head different from tail, and it
\* ends in the retry loop with the queue unchanged, whatever other pushes
\* have completed.  Conversely an attempt whose load of next is non-null
\* goes straight through lines 80-85 and returns the oldest swapped value
\* not yet popped, whatever other pushes are between swap and store.
C18_StalledPushBlocks ==
    [][ \A c \in OneConsumer :
          /\ (ReturnsSome(c) \/ ReturnsNone(c)) => ~StorePending(ctail[c])
          /\ (cpc[c] \in {"rp_next", "rp_head"} /\ StorePending(ctail[c])
                /\ cpc'[c] # cpc[c]) =>
               /\ cpc'[c] = (IF cpc[c] = "rp_next" THEN "rp_head" ELSE "yield")
               /\ mem' = mem
               /\ popLog' = popLog
          /\ (cpc[c] = "rp_next" /\ next[ctail[c]] # NULL
                /\ cpc'[c] # cpc[c]) => cpc'[c] = "rp_settail"
          /\ (cpc[c] = "rp_settail" /\ cpc'[c] # cpc[c]) => cpc'[c] = "rp_assert"
          /\ (cpc[c] = "rp_assert" /\ cpc'[c] # cpc[c]) => cpc'[c] = "rp_take"
          /\ (cpc[c] = "rp_take" /\ cpc'[c] # cpc[c]) => cpc'[c] = "rp_free"
          /\ cpc[c] = "rp_free" =>
               /\ ENABLED RpFree(c)
               /\ cpc'[c] # cpc[c] =>
                    /\ ReturnsSome(c)
                    /\ popLog' = Append(popLog, swapLog[Len(popLog) + 1])
                    /\ lastRes'[c].val = swapLog[Len(popLog) + 1]
      ]_vars

\* The consumer is in the retry loop at a tail node whose link a stalled
\* push has not stored, after popping one value, while another producer has
\* swapped later and completed its push.
C18_Witness ==
    /\ cpc["c1"] = "yield"
    /\ ctail["c1"] = tail
    /\ Len(popLog) >= 1
    /\ \E p \in Producers :
         /\ ppc[p] = "swapped" /\ pprev[p] = tail
         /\ \E q \in Producers \ {p} :
              /\ ppc[q] = "idle"
              /\ swapLog[Len(swapLog)][1] = q
              /\ swapLog[Len(swapLog)] \in Range(storeLog)

\* C19: frame conditions.  A step of push leaves tail unchanged and leaves
\* unchanged the value of every node that already exists (it only sets the
\* value of the node it allocates).  A step of pop, is_empty or drop leaves
\* head and every node's link unchanged.  The steps of a raw_pop attempt
\* outside the Data branch (the read of tail, the load of next, the head
\* load, the yield) and the steps of is_empty leave head, tail and every
\* node as they were.
C19_Frame ==
    [][ /\ (\E p \in Producers : ppc'[p] # ppc[p]) =>
             /\ tail' = tail
             /\ \A n \in Nodes :
                  alloc[n] # "unalloc" =>
                    (value'[n] = value[n] /\ alloc'[n] = alloc[n])
        /\ \A c \in OneConsumer :
             /\ cpc'[c] # cpc[c] =>
                  /\ head' = head
                  /\ next' = next
             /\ (cpc'[c] # cpc[c] /\ cpc[c] \in {"idle", "rp_tail", "rp_next",
                     "rp_head", "yield", "ie_tail", "ie_head"}) =>
                  mem' = mem
      ]_vars

\* is_empty has returned false after a pop had returned a value, while a
\* push is between its swap and its store.
C19_Witness ==
    /\ lastRes["c1"].op = "is_empty"
    /\ lastRes["c1"].val = FALSE
    /\ cpc["c1"] = "idle"
    /\ Len(popLog) >= 1
    /\ InWindow # {}

\* Thread c has called pop at some time.
Acted(c) == cop[c] # "none" \/ lastRes[c].op # "none"

\* Thread c has panicked on one of the queue's own checks: an assert! of
\* raw_pop, the unwrap of line 83, or the panic of line 105.
Caught(c) == cpc[c] \in {"assert_failed", "unwrap_failed", "panicked"}

\* C20: the queue neither prevents nor detects a second consumer.  With two
\* threads calling pop, nothing goes wrong before both have called pop.
\* When a thread leaves line 84 in a run without a fault so far, the value
\* it holds has already been returned by the other thread exactly when the
\* node it frees has already been freed by the other thread: a value taken
\* by both and a node freed twice arise together, in one step.  At that
\* step none of the queue's own checks has fired in either thread, and the
\* step returns Some(value) to the caller unless the allocator aborts the
\* process.
C20_SecondConsumerUnchecked ==
    [][ /\ (faults' # {} \/ ~NoDup(popLog')) =>
             \A c \in Consumers : Acted(c)
        /\ \A c \in Consumers :
             (faults = {} /\ cpc[c] = "rp_free" /\ cpc'[c] # "rp_free") =>
               /\ cret[c] \in Range(popLog) <=> alloc[ctail[c]] = "freed"
               /\ cret[c] \in Range(popLog) <=> "double_free" \in faults'
               /\ cret[c] \in Range(popLog) =>
                    /\ \A k \in Consumers : ~Caught(k)
                    /\ cret[c] \in pushed
                    /\ \/ /\ cpc'[c] = "idle"
                          /\ lastRes'[c] = [op |-> "pop", val |-> cret[c]]
                          /\ popLog' = Append(popLog, cret[c])
                       \/ /\ cpc'[c] = "aborted"
                          /\ "aborted" \in faults'
      ]_vars

\* Two concurrent pops have both returned the same pushed value and the old
\* tail node has been freed twice, neither thread having panicked.
C20_Witness ==
    /\ "double_free" \in faults
    /\ "use_after_free" \notin faults
    /\ ~NoDup(popLog)
    /\ \A c \in Consumers :
         /\ cpc[c] = "idle"
         /\ lastRes[c].op = "pop"
         /\ lastRes[c].val = popLog[1]

====
